---- MODULE Spec2Model ----
(***************************************************************************)
(* Model of the ranking structure (rating.go: Rating, TryPush, insert) and *)
(* of the two aggregation strategies of main.go (SpaceOptimizedRatings,    *)
(* PerformanceOptimizedRatings) of the adjust-test-task CLI.               *)
(*                                                                         *)
(* RatingSpec drives one Rating with arbitrary TryPush calls.              *)
(* AppSpec runs one aggregation strategy over small CSV tables.            *)
(***************************************************************************)
EXTENDS Integers, Sequences, FiniteSets, TLC

VARIABLES
    rating,      \* RatingSpec: the Rating under test, [slice, size]
    offered,     \* RatingSpec: every item handed to TryPush so far, in call order
    accepted,    \* RatingSpec: return value of the last TryPush (FALSE before the first)
    before,      \* RatingSpec: r.slice as it was when the last TryPush was entered
    app          \* AppSpec: tables on disk and the state of the running strategy

vars == <<rating, offered, accepted, before, app>>

\* ---------------------------------------------------------------- bounds
MaxK == 3
MaxOffers == 5
MaxEvents == 2
MaxCommits == 2
Scores == {1, 3, 5, 8}

\* ---------------------------------------------------------------- Ratable

\* Ratable.GetRating, dispatched on the dynamic type of the item.  The Go
\* code converts an int64 to float64; that conversion is exact below 2^53,
\* far above every counter of this model, so scores compare as integers.
GetRating(item) ==
    CASE item.kind = "RatableUser"       -> item.PREvents + item.Commits
      [] item.kind = "CommitRatableRepo" -> item.Commits
      [] item.kind = "WatchRatableRepo"  -> item.WatchEvents

\* ---------------------------------------------------------------- Rating

NewRating(size) == [slice |-> <<>>, size |-> size]

\* insert(a, index, value) with a 0-based index.  append(a[:index+1],
\* a[index:]...) copies with memmove semantics, so the result is the same
\* whether or not the backing array is reused.
insert(a, index, value) ==
    IF Len(a) = index
    THEN Append(a, value)
    ELSE LET grown == SubSeq(a, 1, index + 1) \o SubSeq(a, index + 1, Len(a))
         IN  [grown EXCEPT ![index + 1] = value]

\* The comparison of the scan loop in TryPush.
OutranksOrTies(item, value) == GetRating(item) >= GetRating(value)
Outranks(item, value) == GetRating(item) > GetRating(value)

\* The truncation after an insertion.
Truncate(s, size) == IF Len(s) > size THEN SubSeq(s, 1, size) ELSE s

\* Rating.TryPush: the new Rating and the returned bool.
TryPush(r, item) ==
    IF Len(r.slice) = 0
    THEN [r |-> [r EXCEPT !.slice = Append(r.slice, item)], ok |-> TRUE]
    ELSE LET hits == {i \in 1..Len(r.slice) : Outranks(item, r.slice[i])}
         IN  IF hits = {}
             THEN [r |-> r, ok |-> FALSE]
             ELSE LET i == CHOOSE h \in hits : \A g \in hits : h <= g
                  IN  [r  |-> [r EXCEPT !.slice =
                                  Truncate(insert(r.slice, i - 1, item), r.size)],
                       ok |-> TRUE]

\* ---------------------------------------------------------------- RatingSpec

AppIdle == [pc |-> "idle"]

\* An offered item: a WatchRatableRepo whose ID is its position in call order.
Candidate(n, score) ==
    [kind |-> "WatchRatableRepo", ID |-> n, Name |-> "", WatchEvents |-> score]

RatingInit ==
    /\ \E k \in 0..MaxK : rating = NewRating(k)
    /\ offered = <<>>
    /\ accepted = FALSE
    /\ before = <<>>
    /\ app = AppIdle

Offer(score) ==
    /\ Len(offered) < MaxOffers
    /\ LET item == Candidate(Len(offered) + 1, score)
           res  == TryPush(rating, item)
       IN  /\ rating' = res.r
           /\ accepted' = res.ok
           /\ before' = rating.slice
           /\ offered' = Append(offered, item)
    /\ UNCHANGED app

RatingNext == \E score \in Scores : Offer(score)

RatingSpec == RatingInit /\ [][RatingNext]_vars

\* ---------------------------------------------------------------- records

Nil == "nil"

eventTypeFork        == "ForkEvent"
eventTypePush        == "PushEvent"
eventTypeWatch       == "WatchEvent"
eventTypePullRequest == "PullRequestEvent"

ErrInvalidEventCSV  == "invalid event csv"
ErrInvalidUserCSV   == "invalid user csv"
ErrInvalidCommitCSV == "invalid commit csv"
ErrInvalidRepoCSV   == "invalid commit csv"
\* The *PathError of a failed os.Open.
ErrOpen == "open: cannot open file"

NewEventFromCSV(csv) ==
    IF Len(csv) # 4
    THEN [event |-> Nil, err |-> ErrInvalidEventCSV]
    ELSE [event |-> [ID |-> csv[1], Type |-> csv[2],
                     ActorID |-> csv[3], RepoID |-> csv[4]],
          err   |-> Nil]

NewUserFromCSV(csv) ==
    IF Len(csv) # 2
    THEN [user |-> Nil, err |-> ErrInvalidUserCSV]
    ELSE [user |-> [ID |-> csv[1], Username |-> csv[2]], err |-> Nil]

NewCommitFromCSV(csv) ==
    IF Len(csv) # 3
    THEN [commit |-> Nil, err |-> ErrInvalidCommitCSV]
    ELSE [commit |-> [Hash |-> csv[1], Message |-> csv[2], EventID |-> csv[3]],
          err    |-> Nil]

NewRepoFromCSV(csv) ==
    IF Len(csv) # 2
    THEN [repo |-> Nil, err |-> ErrInvalidRepoCSV]
    ELSE [repo |-> [ID |-> csv[1], Name |-> csv[2]], err |-> Nil]

RatableUser(id, username, commits, prEvents) ==
    [kind |-> "RatableUser", ID |-> id, Username |-> username,
     Commits |-> commits, PREvents |-> prEvents]

RepoWithCommitsAndWatches(id, name, commits, watchEvents) ==
    [ID |-> id, Name |-> name, Commits |-> commits, WatchEvents |-> watchEvents]

CommitRatableRepo(id, name, commits) ==
    [kind |-> "CommitRatableRepo", ID |-> id, Name |-> name, Commits |-> commits]

WatchRatableRepo(id, name, watchEvents) ==
    [kind |-> "WatchRatableRepo", ID |-> id, Name |-> name,
     WatchEvents |-> watchEvents]

\* Capacity of the three ratings of the application.
RatingSize == 10

\* ---------------------------------------------------------------- tables

\* The files of the extracted archive.  Every file starts with a header row
\* and every row of a file has the header's number of fields (encoding/csv
\* refuses any other row before the decoders see it).
ActorIDs == {"u1", "u2"}
RepoIDs  == {"r1", "r2"}
EventIDs == <<"e1", "e2", "e3">>
Hashes   == <<"h1", "h2", "h3">>
EventTypes == {eventTypePush, eventTypePullRequest, eventTypeWatch, eventTypeFork}

UsernameOf == [id \in ActorIDs |-> IF id = "u1" THEN "alice" ELSE "bob"]
RepoNameOf == [id \in RepoIDs |-> IF id = "r1" THEN "alpha" ELSE "beta"]

EventHeader == <<"id", "type", "actor_id", "repo_id">>

\* Events files whose rows have width fields (4 is the well-formed width).
EventsFiles(width) ==
    UNION {
        {<<SubSeq(EventHeader, 1, width)>> \o
            [k \in 1..n |-> SubSeq(<<EventIDs[k], ty[k], ac[k], re[k]>>, 1, width)] :
                ty \in [1..n -> EventTypes], ac \in [1..n -> ActorIDs],
                re \in [1..n -> IF width = 4 THEN RepoIDs ELSE {"r1"}]}
        : n \in 0..MaxEvents}

CommitsFiles ==
    UNION {
        {<<<<"sha", "message", "event_id">>>> \o
            [k \in 1..n |-> <<Hashes[k], "m", ev[k]>>] :
                ev \in [1..n -> {"e1", "e2"}]}
        : n \in 0..MaxCommits}

ActorsFiles ==
    { <<<<"id", "username">>>>,
      <<<<"id", "username">>, <<"u1", UsernameOf["u1"]>>>>,
      <<<<"id", "username">>, <<"u1", UsernameOf["u1"]>>, <<"u2", UsernameOf["u2"]>>>> }

ReposFiles ==
    { <<<<"id", "name">>>>,
      <<<<"id", "name">>, <<"r1", RepoNameOf["r1"]>>>>,
      <<<<"id", "name">>, <<"r1", RepoNameOf["r1"]>>, <<"r2", RepoNameOf["r2"]>>>> }

\* ---------------------------------------------------------------- scans

\* Each scan returns, next to the values of the Go function, two history
\* flags: failed (an os.Open of the scan failed) and malformed (a decoder
\* refused a row of the events file).

RECURSIVE commitsLoop(_, _, _)
commitsLoop(k, eventID, total) ==
    IF k > Len(app.commits) THEN [total |-> total, err |-> Nil]
    ELSE IF k = 1 THEN commitsLoop(k + 1, eventID, total)
    ELSE LET d == NewCommitFromCSV(app.commits[k])
         IN  IF d.err # Nil THEN [total |-> 0, err |-> d.err]
             ELSE IF d.commit.EventID # eventID
                  THEN commitsLoop(k + 1, eventID, total)
                  ELSE commitsLoop(k + 1, eventID, total + 1)

\* App.countCommitsByEvent; openOK is the outcome of os.Open on commits.csv.
countCommitsByEvent(eventID, openOK) ==
    IF ~openOK
    THEN [total |-> 0, err |-> Nil, failed |-> TRUE]
    ELSE commitsLoop(1, eventID, 0) @@ [failed |-> FALSE]

RECURSIVE userEventsLoop(_, _, _, _, _, _)
userEventsLoop(k, userID, commitsOK, totalCommits, totalPREvents, failed) ==
    IF k > Len(app.events)
    THEN [commits |-> totalCommits, prEvents |-> totalPREvents, err |-> Nil,
          failed |-> failed, malformed |-> FALSE]
    ELSE IF k = 1
    THEN userEventsLoop(k + 1, userID, commitsOK, totalCommits, totalPREvents, failed)
    ELSE LET d == NewEventFromCSV(app.events[k])
         IN  IF d.err # Nil
             THEN [commits |-> 0, prEvents |-> 0, err |-> d.err,
                   failed |-> failed, malformed |-> TRUE]
             ELSE IF d.event.ActorID # userID
             THEN userEventsLoop(k + 1, userID, commitsOK,
                                 totalCommits, totalPREvents, failed)
             ELSE IF d.event.Type = eventTypePush
             THEN LET c == countCommitsByEvent(d.event.ID, commitsOK)
                  IN  IF c.err # Nil
                      THEN [commits |-> 0, prEvents |-> 0, err |-> c.err,
                            failed |-> failed \/ c.failed, malformed |-> FALSE]
                      ELSE userEventsLoop(k + 1, userID, commitsOK,
                                          totalCommits + c.total, totalPREvents,
                                          failed \/ c.failed)
             ELSE IF d.event.Type = eventTypePullRequest
             THEN userEventsLoop(k + 1, userID, commitsOK,
                                 totalCommits, totalPREvents + 1, failed)
             ELSE userEventsLoop(k + 1, userID, commitsOK,
                                 totalCommits, totalPREvents, failed)

\* App.countUserRating; eventsOK and commitsOK are the outcomes of the
\* os.Open calls on events.csv and commits.csv during this scan.
countUserRating(userID, eventsOK, commitsOK) ==
    IF ~eventsOK
    THEN [commits |-> 0, prEvents |-> 0, err |-> ErrOpen,
          failed |-> TRUE, malformed |-> FALSE]
    ELSE userEventsLoop(1, userID, commitsOK, 0, 0, FALSE)

RECURSIVE repoEventsLoop(_, _, _, _, _, _)
repoEventsLoop(k, repoID, commitsOK, commitsPushed, watchEvents, failed) ==
    IF k > Len(app.events)
    THEN [commits |-> commitsPushed, watchEvents |-> watchEvents, err |-> Nil,
          failed |-> failed, malformed |-> FALSE]
    ELSE IF k = 1
    THEN repoEventsLoop(k + 1, repoID, commitsOK, commitsPushed, watchEvents, failed)
    ELSE LET d == NewEventFromCSV(app.events[k])
         IN  IF d.err # Nil
             THEN [commits |-> 0, watchEvents |-> 0, err |-> d.err,
                   failed |-> failed, malformed |-> TRUE]
             ELSE IF d.event.RepoID # repoID
             THEN repoEventsLoop(k + 1, repoID, commitsOK,
                                 commitsPushed, watchEvents, failed)
             ELSE IF d.event.Type = eventTypePush
             THEN LET c == countCommitsByEvent(d.event.ID, commitsOK)
                  IN  IF c.err # Nil
                      THEN [commits |-> 0, watchEvents |-> 0, err |-> c.err,
                            failed |-> failed \/ c.failed, malformed |-> FALSE]
                      ELSE repoEventsLoop(k + 1, repoID, commitsOK,
                                          commitsPushed + c.total, watchEvents,
                                          failed \/ c.failed)
             ELSE IF d.event.Type = eventTypeWatch
             THEN repoEventsLoop(k + 1, repoID, commitsOK,
                                 commitsPushed, watchEvents + 1, failed)
             ELSE repoEventsLoop(k + 1, repoID, commitsOK,
                                 commitsPushed, watchEvents, failed)

\* App.countRepoRating.
countRepoRating(repoID, eventsOK, commitsOK) ==
    IF ~eventsOK
    THEN [commits |-> 0, watchEvents |-> 0, err |-> ErrOpen,
          failed |-> TRUE, malformed |-> FALSE]
    ELSE repoEventsLoop(1, repoID, commitsOK, 0, 0, FALSE)

\* ---------------------------------------------------------------- strategy A

\* The loop of rateUsersByPRsAndCommitsSpaceOptimized over actors.csv.
\* rated lists the RatableUser values built at the TryPush call, in row order.
RECURSIVE rateUsersLoop(_, _, _, _, _, _)
rateUsersLoop(k, eventsOK, commitsOK, r, rated, failed) ==
    IF k > Len(app.actors)
    THEN [rating |-> r, rated |-> rated, err |-> Nil,
          failed |-> failed, malformed |-> FALSE]
    ELSE IF k = 1
    THEN rateUsersLoop(k + 1, eventsOK, commitsOK, r, rated, failed)
    ELSE LET d == NewUserFromCSV(app.actors[k])
         IN  IF d.err # Nil
             THEN [rating |-> Nil, rated |-> rated, err |-> d.err,
                   failed |-> failed, malformed |-> FALSE]
             ELSE LET c == countUserRating(d.user.ID, eventsOK, commitsOK)
                      u == RatableUser(d.user.ID, d.user.Username,
                                       c.commits, c.prEvents)
                  IN  IF c.err # Nil
                      THEN [rating |-> Nil, rated |-> rated, err |-> c.err,
                            failed |-> failed \/ c.failed,
                            malformed |-> c.malformed]
                      ELSE rateUsersLoop(k + 1, eventsOK, commitsOK,
                                         TryPush(r, u).r, Append(rated, u),
                                         failed \/ c.failed)

\* App.rateUsersByPRsAndCommitsSpaceOptimized; usersOK is the outcome of
\* os.Open on actors.csv.
rateUsersByPRsAndCommitsSpaceOptimized(usersOK, eventsOK, commitsOK) ==
    IF ~usersOK
    THEN [rating |-> Nil, rated |-> <<>>, err |-> ErrOpen,
          failed |-> TRUE, malformed |-> FALSE]
    ELSE rateUsersLoop(1, eventsOK, commitsOK, NewRating(RatingSize), <<>>, FALSE)

\* The loop of rateReposByCommitsAndWatchesSpaceOptimized over repos.csv.
RECURSIVE rateReposLoop(_, _, _, _, _, _, _)
rateReposLoop(k, eventsOK, commitsOK, cr, wr, rated, failed) ==
    IF k > Len(app.repos)
    THEN [commitsRating |-> cr, watchRating |-> wr, rated |-> rated,
          err |-> Nil, failed |-> failed, malformed |-> FALSE]
    ELSE IF k = 1
    THEN rateReposLoop(k + 1, eventsOK, commitsOK, cr, wr, rated, failed)
    ELSE LET d == NewRepoFromCSV(app.repos[k])
         IN  IF d.err # Nil
             THEN [commitsRating |-> Nil, watchRating |-> Nil, rated |-> rated,
                   err |-> d.err, failed |-> failed, malformed |-> FALSE]
             ELSE LET c == countRepoRating(d.repo.ID, eventsOK, commitsOK)
                  IN  IF c.err # Nil
                      THEN [commitsRating |-> Nil, watchRating |-> Nil,
                            rated |-> rated, err |-> c.err,
                            failed |-> failed \/ c.failed,
                            malformed |-> c.malformed]
                      ELSE rateReposLoop(k + 1, eventsOK, commitsOK,
                             TryPush(cr, CommitRatableRepo(d.repo.ID, d.repo.Name,
                                                           c.commits)).r,
                             TryPush(wr, WatchRatableRepo(d.repo.ID, d.repo.Name,
                                                          c.watchEvents)).r,
                             Append(rated, RepoWithCommitsAndWatches(
                                 d.repo.ID, d.repo.Name, c.commits, c.watchEvents)),
                             failed \/ c.failed)

\* App.rateReposByCommitsAndWatchesSpaceOptimized.
rateReposByCommitsAndWatchesSpaceOptimized(reposOK, eventsOK, commitsOK) ==
    IF ~reposOK
    THEN [commitsRating |-> Nil, watchRating |-> Nil, rated |-> <<>>,
          err |-> ErrOpen, failed |-> TRUE, malformed |-> FALSE]
    ELSE rateReposLoop(1, eventsOK, commitsOK, NewRating(RatingSize),
                       NewRating(RatingSize), <<>>, FALSE)

\* ---------------------------------------------------------------- strategy B

\* The loop of fillUsernames over actors.csv.
RECURSIVE fillUsernamesLoop(_, _)
fillUsernamesLoop(k, users) ==
    IF k > Len(app.actors) THEN [users |-> users, err |-> Nil]
    ELSE IF k = 1 THEN fillUsernamesLoop(k + 1, users)
    ELSE LET d == NewUserFromCSV(app.actors[k])
         IN  IF d.err # Nil THEN [users |-> users, err |-> d.err]
             ELSE IF d.user.ID \in DOMAIN users
             THEN fillUsernamesLoop(k + 1,
                      [users EXCEPT ![d.user.ID].Username = d.user.ID])
             ELSE fillUsernamesLoop(k + 1, users)

\* App.fillUsernames.
fillUsernames(users, openOK) ==
    IF ~openOK THEN [users |-> users, err |-> ErrOpen]
    ELSE fillUsernamesLoop(1, users)

\* The loop of fillRepoNames over repos.csv.
RECURSIVE fillRepoNamesLoop(_, _)
fillRepoNamesLoop(k, repos) ==
    IF k > Len(app.repos) THEN [repos |-> repos, err |-> Nil]
    ELSE IF k = 1 THEN fillRepoNamesLoop(k + 1, repos)
    ELSE LET d == NewRepoFromCSV(app.repos[k])
         IN  IF d.err # Nil THEN [repos |-> repos, err |-> d.err]
             ELSE IF d.repo.ID \in DOMAIN repos
             THEN fillRepoNamesLoop(k + 1,
                      [repos EXCEPT ![d.repo.ID].Name = d.repo.Name])
             ELSE fillRepoNamesLoop(k + 1, repos)

\* App.fillRepoNames.
fillRepoNames(repos, openOK) ==
    IF ~openOK THEN [repos |-> repos, err |-> ErrOpen]
    ELSE fillRepoNamesLoop(1, repos)

\* ---------------------------------------------------------------- AppSpec

RatingIdle == NewRating(0)

\* One run of the program over the files of the archive.  pc is the position
\* in SpaceOptimizedRatings or PerformanceOptimizedRatings; "returned" and
\* "panic" end the run.  ret is Nil while no Ratings have been returned.
AppInit ==
    /\ rating = RatingIdle
    /\ offered = <<>>
    /\ accepted = FALSE
    /\ before = <<>>
    /\ \E width \in {3, 4} :
       \E ev \in EventsFiles(width), co \in CommitsFiles,
          ac \in ActorsFiles, re \in ReposFiles :
            app = [pc |-> "start", strategy |-> Nil,
                   events |-> ev, commits |-> co, actors |-> ac, repos |-> re,
                   cursor |-> 0,
                   users |-> <<>>, repoStats |-> <<>>,
                   usersLeft |-> {}, reposLeft |-> {},
                   rated |-> <<>>, ratedRepos |-> <<>>,
                   usersRating |-> NewRating(RatingSize),
                   repoCommitsRating |-> NewRating(RatingSize),
                   repoWatchesRating |-> NewRating(RatingSize),
                   err |-> Nil, ret |-> Nil,
                   ioFailed |-> FALSE, malformed |-> FALSE]

Return(a, err) == [a EXCEPT !.pc = "returned", !.err = err,
                            !.ret = IF err = Nil THEN "ratings" ELSE Nil]

\* SpaceOptimizedRatings, first call: rateUsersByPRsAndCommitsSpaceOptimized.
\* Within one call every os.Open of the same file has the same outcome.
SORateUsers ==
    /\ app.pc = "start"
    /\ \E usersOK, eventsOK, commitsOK \in BOOLEAN :
        LET res == rateUsersByPRsAndCommitsSpaceOptimized(usersOK, eventsOK, commitsOK)
            a   == [app EXCEPT !.strategy = "SO",
                               !.rated = res.rated,
                               !.ioFailed = res.failed,
                               !.malformed = res.malformed]
        IN  app' = IF res.err # Nil
                   THEN Return(a, res.err)
                   ELSE [a EXCEPT !.pc = "rateRepos", !.usersRating = res.rating]
    /\ UNCHANGED <<rating, offered, accepted, before>>

\* SpaceOptimizedRatings, second call: rateReposByCommitsAndWatchesSpaceOptimized.
SORateRepos ==
    /\ app.pc = "rateRepos"
    /\ \E reposOK, eventsOK, commitsOK \in BOOLEAN :
        LET res == rateReposByCommitsAndWatchesSpaceOptimized(reposOK, eventsOK, commitsOK)
            a   == [app EXCEPT !.ratedRepos = res.rated,
                               !.ioFailed = @ \/ res.failed,
                               !.malformed = @ \/ res.malformed]
        IN  app' = IF res.err # Nil
                   THEN Return(a, res.err)
                   ELSE Return([a EXCEPT !.repoCommitsRating = res.commitsRating,
                                         !.repoWatchesRating = res.watchRating], Nil)
    /\ UNCHANGED <<rating, offered, accepted, before>>

\* PerformanceOptimizedRatings up to the events loop: the maps, the three
\* Ratings and os.Open on events.csv.
POStart ==
    /\ app.pc = "start"
    /\ \E openOK \in BOOLEAN :
        LET a == [app EXCEPT !.strategy = "PO"]
        IN  app' = IF ~openOK
                   THEN Return([a EXCEPT !.ioFailed = TRUE], ErrOpen)
                   ELSE [a EXCEPT !.pc = "events"]
    /\ UNCHANGED <<rating, offered, accepted, before>>

\* The stats maps after the switch of the events loop on a decoded event.
AddCommits(users, id, n) ==
    IF id \in DOMAIN users
    THEN [users EXCEPT ![id].Commits = @ + n]
    ELSE users @@ (id :> RatableUser(id, "", n, 0))

AddPREvent(users, id) ==
    IF id \in DOMAIN users
    THEN [users EXCEPT ![id].PREvents = @ + 1]
    ELSE users @@ (id :> RatableUser(id, "", 0, 1))

AddRepoCommits(repos, id, n) ==
    IF id \in DOMAIN repos
    THEN [repos EXCEPT ![id].Commits = @ + n]
    ELSE repos @@ (id :> RepoWithCommitsAndWatches(id, "", n, 0))

AddWatchEvent(repos, id) ==
    IF id \in DOMAIN repos
    THEN [repos EXCEPT ![id].WatchEvents = @ + 1]
    ELSE repos @@ (id :> RepoWithCommitsAndWatches(id, "", 0, 1))

\* One iteration of the events loop of PerformanceOptimizedRatings: one
\* Read() of the csv reader and everything done with the record.  The error
\* of NewEventFromCSV is never looked at; event is nil exactly when that
\* error is set, and event.ID then panics with a nil pointer dereference.
POReadEvent ==
    /\ app.pc = "events"
    /\ LET k == app.cursor + 1
           a == [app EXCEPT !.cursor = k]
       IN  IF k > Len(app.events)
           THEN app' = [a EXCEPT !.pc = "fillUsernames"]
           ELSE IF k = 1
           THEN app' = a
           ELSE LET d == NewEventFromCSV(app.events[k])
                IN  IF d.err # Nil
                    THEN app' = [a EXCEPT !.pc = "panic", !.malformed = TRUE]
                    ELSE IF d.event.Type = eventTypePush
                    THEN \E openOK \in BOOLEAN :
                           LET c == countCommitsByEvent(d.event.ID, openOK)
                           IN  app' =
                                 IF c.err # Nil
                                 THEN Return([a EXCEPT !.ioFailed = @ \/ c.failed], c.err)
                                 ELSE [a EXCEPT
                                         !.ioFailed = @ \/ c.failed,
                                         !.users = AddCommits(@, d.event.ActorID, c.total),
                                         !.repoStats = AddRepoCommits(@, d.event.RepoID, c.total)]
                    ELSE IF d.event.Type = eventTypePullRequest
                    THEN app' = [a EXCEPT !.users = AddPREvent(@, d.event.ActorID)]
                    ELSE IF d.event.Type = eventTypeWatch
                    THEN app' = [a EXCEPT !.repoStats = AddWatchEvent(@, d.event.RepoID)]
                    ELSE app' = a
    /\ UNCHANGED <<rating, offered, accepted, before>>

\* The call of fillUsernames and its error check.
POFillUsernames ==
    /\ app.pc = "fillUsernames"
    /\ \E openOK \in BOOLEAN :
        LET res == fillUsernames(app.users, openOK)
            a   == [app EXCEPT !.users = res.users, !.ioFailed = @ \/ ~openOK]
        IN  app' = IF res.err # Nil THEN Return(a, res.err)
                   ELSE [a EXCEPT !.pc = "fillRepoNames"]
    /\ UNCHANGED <<rating, offered, accepted, before>>

\* The call of fillRepoNames and its error check.
POFillRepoNames ==
    /\ app.pc = "fillRepoNames"
    /\ \E openOK \in BOOLEAN :
        LET res == fillRepoNames(app.repoStats, openOK)
            a   == [app EXCEPT !.repoStats = res.repos, !.ioFailed = @ \/ ~openOK]
        IN  app' = IF res.err # Nil THEN Return(a, res.err)
                   ELSE [a EXCEPT !.pc = "rangeUsers",
                                  !.usersLeft = DOMAIN app.users,
                                  !.reposLeft = DOMAIN res.repos]
    /\ UNCHANGED <<rating, offered, accepted, before>>

\* What one iteration of the loops over the maps offers to the Ratings.
PushUser(a, id) ==
    [a EXCEPT !.usersRating = TryPush(@, a.users[id]).r,
              !.usersLeft = @ \ {id}]

PushRepo(a, id) ==
    LET value == a.repoStats[id]
    IN  [a EXCEPT
           !.repoCommitsRating =
               TryPush(@, CommitRatableRepo(value.ID, value.Name, value.Commits)).r,
           !.repoWatchesRating =
               TryPush(@, WatchRatableRepo(value.ID, value.Name, value.WatchEvents)).r,
           !.reposLeft = @ \ {id}]

\* One iteration of "for _, value := range users"; Go leaves the order of a
\* map range unspecified, so any entry not yet visited may come next.
PORangeUsers ==
    /\ app.pc = "rangeUsers"
    /\ IF app.usersLeft = {}
       THEN app' = [app EXCEPT !.pc = "rangeRepos"]
       ELSE \E id \in app.usersLeft : app' = PushUser(app, id)
    /\ UNCHANGED <<rating, offered, accepted, before>>

\* One iteration of "for _, value := range repos", then the return.
PORangeRepos ==
    /\ app.pc = "rangeRepos"
    /\ IF app.reposLeft = {}
       THEN app' = Return(app, Nil)
       ELSE \E id \in app.reposLeft : app' = PushRepo(app, id)
    /\ UNCHANGED <<rating, offered, accepted, before>>

AppNext ==
    \/ SORateUsers
    \/ SORateRepos
    \/ POStart
    \/ POReadEvent
    \/ POFillUsernames
    \/ POFillRepoNames
    \/ PORangeUsers
    \/ PORangeRepos

AppSpec == AppInit /\ [][AppNext]_vars

\* ---------------------------------------------------------------- claims on Rating

Held == rating.slice

\* Number of offered items that rank ahead of item: a higher score, or the
\* same score and an earlier offer.
Ahead(item) ==
    Cardinality({n \in 1..Len(offered) :
        \/ GetRating(offered[n]) > GetRating(item)
        \/ GetRating(offered[n]) = GetRating(item) /\ offered[n].ID < item.ID})

\* The true top-K of everything offered, best first, earliest first on ties.
TopK(k) ==
    LET len == IF Len(offered) < k THEN Len(offered) ELSE k
    IN  [i \in 1..len |-> CHOOSE item \in {offered[n] : n \in 1..Len(offered)} :
                              Ahead(item) = i - 1]

\* C1: after any sequence of TryPush calls on a fresh Rating of capacity K,
\* the held sequence is the true top-K of all offered candidates, ordered by
\* score descending with ties in offer order.
C1_HeldIsTopK == Held = TopK(rating.size)

\* C2: the number of held items never exceeds the capacity K, for every
\* K >= 0 (K = 0 included).
C2_LenAtMostK == Len(Held) <= rating.size

\* C3: the held sequence is non-increasing by score, and held items of equal
\* score appear in the order in which they were offered.
C3_SortedTiesInOfferOrder ==
    \A i, j \in 1..Len(Held) :
        i < j => \/ GetRating(Held[i]) > GetRating(Held[j])
                 \/ /\ GetRating(Held[i]) = GetRating(Held[j])
                    /\ Held[i].ID < Held[j].ID

\* C3 witness: two items of equal score are held, the later-offered one
\* having been inserted in front of a lower-scored resident.
C3_Witness ==
    /\ Len(Held) >= 3
    /\ GetRating(Held[1]) = GetRating(Held[2])
    /\ GetRating(Held[2]) > GetRating(Held[3])
    /\ Held[3].ID < Held[2].ID

\* C4: a TryPush rejects (returns false, sequence unchanged) only when no
\* held item scores strictly less and the sequence is at capacity; in every
\* other case the item goes immediately before the first strictly smaller
\* held item, or after all held items if there is none, and true is returned.
C4_RejectOnlyWhenFull ==
    Len(offered) > 0 =>
        LET item    == offered[Len(offered)]
            smaller == {i \in 1..Len(before) :
                            GetRating(before[i]) < GetRating(item)}
            full    == Len(before) >= rating.size
            pos     == IF smaller = {} THEN Len(before) + 1
                       ELSE CHOOSE i \in smaller : \A g \in smaller : i <= g
            placed  == SubSeq(before, 1, pos - 1) \o <<item>>
                         \o SubSeq(before, pos, Len(before))
            kept    == IF Len(placed) > rating.size
                       THEN SubSeq(placed, 1, rating.size) ELSE placed
        IN  /\ accepted = FALSE => smaller = {} /\ full /\ Held = before
            /\ ~(smaller = {} /\ full) => accepted = TRUE /\ Held = kept

\* ---------------------------------------------------------------- claims on the strategies

Values(f) == {f[x] : x \in DOMAIN f}

PODone == app.pc = "returned" /\ app.strategy = "PO" /\ app.err = Nil

\* C5: for the same tables both strategies produce the same per-user and
\* per-repo stats: the same entity ids, each with the same counters and the
\* same display name.
C5_StrategiesAgree ==
    PODone /\ ~app.ioFailed =>
        /\ Values(app.users) =
             Values(rateUsersByPRsAndCommitsSpaceOptimized(TRUE, TRUE, TRUE).rated)
        /\ Values(app.repoStats) =
             Values(rateReposByCommitsAndWatchesSpaceOptimized(TRUE, TRUE, TRUE).rated)

\* C6: when an event row whose field count is not 4 is reached, in either
\* strategy, the step that reaches it returns the malformed-record error to
\* the caller, returns no Ratings and mutates no stats.
C6_MalformedEventReturned ==
    [][~app.malformed /\ app'.malformed =>
          /\ app'.pc = "returned"
          /\ app'.err = ErrInvalidEventCSV
          /\ app'.ret = Nil
          /\ app'.users = app.users
          /\ app'.repoStats = app.repoStats]_vars

\* C7: once any os.Open of the aggregation has failed, commits.csv included,
\* the run has returned an error to the caller and no Ratings.
C7_IOFailureReturned ==
    app.ioFailed => app.pc = "returned" /\ app.err # Nil /\ app.ret = Nil

\* Number of rows of commits.csv whose eventId is eventID.
MatchingCommits(eventID) ==
    Cardinality({k \in 2..Len(app.commits) : app.commits[k][3] = eventID})

FieldOr0(m, id, field) == IF id \in DOMAIN m THEN m[id][field] ELSE 0

\* C8: processing a Push event that matches n rows of commits.csv adds
\* exactly n to the commits of the event's actor and of the event's repo
\* (creating the entry if absent), and changes no pullRequestEvents or
\* watchEvents counter and no other entry.
C8_PushAddsMatchingCommits ==
    [][(/\ app.pc = "events"
        /\ app'.pc = "events"
        /\ app.cursor + 1 \in 2..Len(app.events)
        /\ Len(app.events[app.cursor + 1]) = 4
        /\ app.events[app.cursor + 1][2] = eventTypePush)
       => LET e == NewEventFromCSV(app.events[app.cursor + 1]).event
              n == MatchingCommits(e.ID)
          IN  /\ DOMAIN app'.users = DOMAIN app.users \cup {e.ActorID}
              /\ DOMAIN app'.repoStats = DOMAIN app.repoStats \cup {e.RepoID}
              /\ app'.users[e.ActorID].Commits
                    = FieldOr0(app.users, e.ActorID, "Commits") + n
              /\ app'.repoStats[e.RepoID].Commits
                    = FieldOr0(app.repoStats, e.RepoID, "Commits") + n
              /\ app'.users[e.ActorID].PREvents
                    = FieldOr0(app.users, e.ActorID, "PREvents")
              /\ app'.repoStats[e.RepoID].WatchEvents
                    = FieldOr0(app.repoStats, e.RepoID, "WatchEvents")
              /\ \A id \in DOMAIN app.users \ {e.ActorID} :
                    app'.users[id] = app.users[id]
              /\ \A id \in DOMAIN app.repoStats \ {e.RepoID} :
                    app'.repoStats[id] = app.repoStats[id]]_vars

\* The second field of the row of a two-column file whose first field is id,
\* the empty string if there is no such row.
NameInFile(file, id) ==
    LET rows == {k \in 2..Len(file) : file[k][1] = id}
    IN  IF rows = {} THEN "" ELSE file[CHOOSE k \in rows : TRUE][2]

\* C9: the name backfill of the single-pass strategy gives every user entry
\* the username of its row of actors.csv and every repo entry the name of
\* its row of repos.csv, leaves the name empty where there is no row, and
\* changes no counter and no set of entries.
C9_BackfillNames ==
    [][/\ (app.pc = "fillUsernames" /\ app'.pc = "fillRepoNames") =>
            /\ app'.users = [id \in DOMAIN app.users |->
                  [app.users[id] EXCEPT !.Username = NameInFile(app.actors, id)]]
            /\ app'.repoStats = app.repoStats
       /\ (app.pc = "fillRepoNames" /\ app'.pc = "rangeUsers") =>
            /\ app'.repoStats = [id \in DOMAIN app.repoStats |->
                  [app.repoStats[id] EXCEPT !.Name = NameInFile(app.repos, id)]]
            /\ app'.users = app.users]_vars

\* Every order in which a range loop can visit the keys of a map.
Orders(keys) ==
    {o \in [1..Cardinality(keys) -> keys] :
        \A i, j \in 1..Cardinality(keys) : i # j => o[i] # o[j]}

RECURSIVE RangeUsersIn(_, _, _)
RangeUsersIn(order, k, a) ==
    IF k > Len(order) THEN a ELSE RangeUsersIn(order, k + 1, PushUser(a, order[k]))

RECURSIVE RangeReposIn(_, _, _)
RangeReposIn(order, k, a) ==
    IF k > Len(order) THEN a ELSE RangeReposIn(order, k + 1, PushRepo(a, order[k]))

Unranked ==
    [app EXCEPT !.usersRating = NewRating(RatingSize),
                !.repoCommitsRating = NewRating(RatingSize),
                !.repoWatchesRating = NewRating(RatingSize)]

\* C10: the three Ratings returned by PerformanceOptimizedRatings are the
\* same for every order in which the users and repos maps are iterated.
C10_IterationOrderIrrelevant ==
    PODone =>
        /\ \A o \in Orders(DOMAIN app.users) :
              RangeUsersIn(o, 1, Unranked).usersRating = app.usersRating
        /\ \A o \in Orders(DOMAIN app.repoStats) :
              LET a == RangeReposIn(o, 1, Unranked)
              IN  /\ a.repoCommitsRating = app.repoCommitsRating
                  /\ a.repoWatchesRating = app.repoWatchesRating

====
